---- MODULE Spec2Model ----
(***************************************************************************)
(* configurator: synchronises a local directory tree with a subtree of a   *)
(* ZooKeeper namespace (upload, download, recursive delete).               *)
(*                                                                         *)
(* The program is modelled as a call stack of frames; every action is one  *)
(* call of the ZooKeeper client (or one purely local step of the control   *)
(* flow) together with the local work that follows it up to the next call. *)
(* Another actor may change the remote namespace between two calls.        *)
(***************************************************************************)
EXTENDS Integers, Sequences, FiniteSets, TLC

VARIABLES
  remote,     \* the ZooKeeper namespace: path -> node
  localfs,    \* the local tree below -local_prefix: relative path -> entry
  now,        \* wall clock, milliseconds
  flags,      \* the command line: [upload, delete]
  status,     \* "init", "running", "done", "panic" (panic), "fatal" (log.Fatalf)
  stack,      \* call stack, top last
  extLeft,    \* steps the other actor may still take
  runsLeft,   \* further invocations of the tool
  runKind,    \* "first", "repeat" (same flags, same trees), "fresh" (download into an empty directory)
  lastCall,   \* the last ZooKeeper call the program issued
  rwrites,    \* remote paths this run wrote (created, set or deleted)
  lwrites,    \* local paths this run wrote
  prevRemote, \* the namespace when this run started
  prevLocal,  \* the local tree when this run started
  srcTree,    \* the tree that was uploaded, kept when the next run downloads elsewhere
  remote0,    \* the namespace before the first run
  \* the paths as the strings the code computes with
  serverPrefixStr, \* *serverPrefix as given on the command line
  localPrefixStr,  \* *localPrefix as given on the command line
  pathRun,         \* "off", "ensure", "walk", "download", "panic"
  ensureStack,     \* the nested calls of ensureRemotePath, innermost last
  walkAt           \* the entry or node being visited: [names, local, remote]

pathVars == <<serverPrefixStr, localPrefixStr, pathRun, ensureStack, walkAt>>

treeVars == <<remote, localfs, now, flags, status, stack, extLeft, runsLeft, runKind,
              lastCall, rwrites, lwrites, prevRemote, prevLocal, srcTree, remote0>>

vars == <<remote, localfs, now, flags, status, stack, extLeft, runsLeft, runKind,
          lastCall, rwrites, lwrites, prevRemote, prevLocal, srcTree, remote0,
          pathVars>>

---------------------------------------------------------------------------
(* Bounds *)

MaxExt == 1
MaxRuns == 2

\* the longest -server_prefix and -local_prefix, in characters
MaxServerLen == 4
MaxLocalLen == 2

\* the deepest entry or node visited below the prefixes
MaxNames == 2

\* the nesting of ensureRemotePath up to which the recursion is followed
MaxNest == 6

(* stat.Mtime is in milliseconds, time.Unix takes seconds *)
MsPerSec == 1000

---------------------------------------------------------------------------
(* Paths: a cleaned slash-separated path is the sequence of its components *)

Root == <<>>

\* -server_prefix
ServerPrefix == <<"p", "r">>

\* the relative paths of the trees considered
Rel == {<<>>, <<"a">>, <<"a", "c">>, <<"b">>}

\* the order in which filepath.Walk (lexical) lists names
NameOrder == <<"a", "b", "c">>

Names == {NameOrder[i] : i \in DOMAIN NameOrder}

Join(p, child) == Append(p, child)

Dir(p) == IF p = Root THEN Root ELSE SubSeq(p, 1, Len(p) - 1)

Base(p) == p[Len(p)]

RPaths == {SubSeq(ServerPrefix, 1, n) : n \in 0..Len(ServerPrefix)}
            \cup {ServerPrefix \o u : u \in Rel}

\* path.Join(*serverPrefix, visitedPath[len(absLocal):])
RemotePath(rel) == ServerPrefix \o rel

---------------------------------------------------------------------------
(* Payloads *)

Empty == <<>>
X == <<120>>
Y == <<121>>

---------------------------------------------------------------------------
(* The ZooKeeper namespace *)

Absent == [ex |-> FALSE, data |-> Empty, version |-> 0, mtime |-> 0]

Node(d, v, t) == [ex |-> TRUE, data |-> d, version |-> v, mtime |-> t]

ChildrenOf(rem, p) ==
  {q \in RPaths : Len(q) = Len(p) + 1 /\ Dir(q) = p /\ rem[q].ex}

ChildNames(rem, p) == {Base(q) : q \in ChildrenOf(rem, p)}

\* the Stat a call returns; a zero Stat for a node that is not there
StatOf(rem, p) ==
  [version |-> rem[p].version,
   numChildren |-> Cardinality(ChildrenOf(rem, p)),
   dataLength |-> Len(rem[p].data),
   mtime |-> rem[p].mtime]

zkCreate(rem, p, d, t) ==
  IF ~rem[Dir(p)].ex THEN [err |-> "NoNode", rem |-> rem]
  ELSE IF rem[p].ex THEN [err |-> "NodeExists", rem |-> rem]
  ELSE [err |-> "ok", rem |-> [rem EXCEPT ![p] = Node(d, 0, t)]]

zkSet(rem, p, d, ver, t) ==
  IF ~rem[p].ex THEN [err |-> "NoNode", rem |-> rem]
  ELSE IF ver # -1 /\ ver # rem[p].version THEN [err |-> "BadVersion", rem |-> rem]
  ELSE [err |-> "ok", rem |-> [rem EXCEPT ![p] = Node(d, rem[p].version + 1, t)]]

zkDelete(rem, p, ver) ==
  IF ~rem[p].ex THEN [err |-> "NoNode", rem |-> rem]
  ELSE IF ver # -1 /\ ver # rem[p].version THEN [err |-> "BadVersion", rem |-> rem]
  ELSE IF ChildrenOf(rem, p) # {} THEN [err |-> "NotEmpty", rem |-> rem]
  ELSE [err |-> "ok", rem |-> [rem EXCEPT ![p] = Absent]]

\* the orders in which a listing may return a set of names
Orders(S) ==
  {s \in [1..Cardinality(S) -> S] : \A i, j \in DOMAIN s : i # j => s[i] # s[j]}

---------------------------------------------------------------------------
(* The local tree *)

NoEntry == [kind |-> "none", content |-> Empty, mtime |-> 0]

DirEntry(t) == [kind |-> "dir", content |-> Empty, mtime |-> t]

FileEntry(c, t) == [kind |-> "file", content |-> c, mtime |-> t]

OtherEntry(t) == [kind |-> "other", content |-> Empty, mtime |-> t]

RECURSIVE WalkFrom(_, _, _)
\* filepath.Walk: the entries below and including rel, a directory before
\* its entries, names in lexical order
WalkFrom(fs, rel, i) ==
  IF i > Len(NameOrder) THEN <<>>
  ELSE LET q == Join(rel, NameOrder[i])
           sub == IF q \in Rel /\ fs[q].kind # "none"
                  THEN <<q>> \o (IF fs[q].kind = "dir" THEN WalkFrom(fs, q, 1) ELSE <<>>)
                  ELSE <<>>
       IN  sub \o WalkFrom(fs, rel, i + 1)

\* a walk that lists an entry after the entries below it
WalkLeavesFirst(fs) ==
  LET w == <<Root>> \o (IF fs[Root].kind = "dir" THEN WalkFrom(fs, Root, 1) ELSE <<>>)
  IN  [i \in 1..Len(w) |-> w[Len(w) + 1 - i]]

Walk(fs) ==
  <<Root>> \o (IF fs[Root].kind = "dir" THEN WalkFrom(fs, Root, 1) ELSE <<>>)

---------------------------------------------------------------------------
(* Frames *)

Frame(fn, pc, path, lpath) ==
  [fn |-> fn, pc |-> pc, path |-> path, lpath |-> lpath, todo |-> <<>>, version |-> 0]

Top == stack[Len(stack)]

Popped == SubSeq(stack, 1, Len(stack) - 1)

WithTop(fr) == [stack EXCEPT ![Len(stack)] = fr]

Running(fn, pc) ==
  /\ status = "running"
  /\ stack # <<>>
  /\ Top.fn = fn
  /\ Top.pc = pc

Call(op, p, err, kids) == [op |-> op, path |-> p, err |-> err, kids |-> kids]

NoCall == Call("none", Root, "ok", FALSE)

---------------------------------------------------------------------------
(* Decisions of the code *)

\* a delete that expects the version to have risen while the children went
DeleteNextVersion(fr) == fr.version + 1

\* c.Delete(*serverPrefix, stat.Version)
DeleteVersionArg(fr) == fr.version

\* a set that does not name the version it read
SetAnyVersion(fr) == -1

\* c.Set(remotePath, fData, fStat.Version)
SetVersionArg(fr) == fr.version

\* the check on the children left out
NoChildCheck(st) == FALSE

\* fStat.NumChildren > 0
ChildConflict(st) == st.numChildren > 0

\* stat.DataLength == 0
IsDirNode(st) == st.dataLength = 0

\* fData: []byte{} for a directory, the file's bytes otherwise
UploadPayload(e) == IF e.kind = "dir" THEN Empty ELSE e.content

\* an existing node overwritten whatever the local entry is
OverwriteAlways(e) == TRUE

\* on "node exists": a directory is left alone, a file is overwritten
OverwriteOnExists(e) == e.kind # "dir"

\* mtime := time.Unix(stat.Mtime/1000, 0), in milliseconds
RemoteMtime(st) == (st.mtime \div MsPerSec) * MsPerSec

\* mtime == fInfo.ModTime()
SameTime(mtime, modTime) == mtime = modTime

\* the file left with the time of the write
ChtimesNow(mtime, clock) == clock

\* os.Chtimes(*localPrefix, mtime, mtime)
ChtimesArg(mtime, clock) == mtime

\* a walk that uploads whatever it meets
EveryKindSupported(e) == TRUE

\* fInfo.Mode().IsRegular() || fInfo.IsDir()
IsSupported(e) == e.kind \in {"dir", "file"}

\* a clean-up before every upload, asked for or not
DeleteAlways(f) == TRUE

\* *isDelete
DeleteFirst(f) == f.delete

\* an ensure that takes "node exists" for a failure
EnsureOnlyCreated(err) == err = "ok"

\* ensureRemotePath: err == nil, or err == zk.ErrNodeExists
EnsureTolerated(err) == err \in {"ok", "NodeExists"}

\* os.Mkdir
Mkdir(fs, l) ==
  IF fs[l].kind # "none" THEN [err |-> "exist", fs |-> fs]
  ELSE IF l # Root /\ fs[Dir(l)].kind # "dir" THEN [err |-> "error", fs |-> fs]
  ELSE [err |-> "ok",
        fs |-> IF l = Root THEN [fs EXCEPT ![l] = DirEntry(now)]
               ELSE [fs EXCEPT ![l] = DirEntry(now), ![Dir(l)].mtime = now]]

\* ioutil.WriteFile followed by os.Chtimes
WriteFile(fs, l, d, mtime) ==
  IF fs[l].kind = "none" /\ l # Root
  THEN [fs EXCEPT ![l] = FileEntry(d, ChtimesArg(mtime, now)), ![Dir(l)].mtime = now]
  ELSE [fs EXCEPT ![l] = FileEntry(d, ChtimesArg(mtime, now))]

---------------------------------------------------------------------------
(* main *)

MainStart ==
  /\ status = "init"
  /\ status' = "running"
  /\ stack' =
       IF flags.upload
       THEN IF DeleteFirst(flags)
            THEN <<Frame("main", "afterDelete", Root, Root),
                   Frame("doDelete", "children", ServerPrefix, Root)>>
            ELSE <<Frame("main", "ret", Root, Root),
                   Frame("doUpload", "start", ServerPrefix, Root)>>
       ELSE <<Frame("main", "ret", Root, Root),
              Frame("doDownload", "get", ServerPrefix, Root)>>
  /\ UNCHANGED <<remote, localfs, now, flags, extLeft, runsLeft, runKind, lastCall,
                 rwrites, lwrites, prevRemote, prevLocal, srcTree, remote0, pathVars>>

MainAfterDelete ==
  /\ Running("main", "afterDelete")
  /\ stack' = <<Frame("main", "ret", Root, Root),
                Frame("doUpload", "start", ServerPrefix, Root)>>
  /\ UNCHANGED <<remote, localfs, now, flags, status, extLeft, runsLeft, runKind,
                 lastCall, rwrites, lwrites, prevRemote, prevLocal, srcTree, remote0, pathVars>>

MainDone ==
  /\ Running("main", "ret")
  /\ status' = "done"
  /\ stack' = <<>>
  /\ UNCHANGED <<remote, localfs, now, flags, extLeft, runsLeft, runKind, lastCall,
                 rwrites, lwrites, prevRemote, prevLocal, srcTree, remote0, pathVars>>

---------------------------------------------------------------------------
(* doDelete *)

DeleteChildren ==
  /\ Running("doDelete", "children")
  /\ LET p == Top.path IN
       IF ~remote[p].ex
       THEN /\ stack' = Popped
            /\ lastCall' = Call("children", p, "NoNode", FALSE)
       ELSE /\ \E ord \in Orders(ChildNames(remote, p)) :
                 stack' = WithTop([Top EXCEPT !.pc = "loop", !.todo = ord,
                                              !.version = StatOf(remote, p).version])
            /\ lastCall' = Call("children", p, "ok", ChildrenOf(remote, p) # {})
  /\ UNCHANGED <<remote, localfs, now, flags, status, extLeft, runsLeft, runKind,
                 rwrites, lwrites, prevRemote, prevLocal, srcTree, remote0, pathVars>>

DeleteNext ==
  /\ Running("doDelete", "loop")
  /\ stack' =
       IF Top.todo # <<>>
       THEN Append(WithTop([Top EXCEPT !.todo = Tail(@)]),
                   Frame("doDelete", "children", Join(Top.path, Head(Top.todo)), Root))
       ELSE WithTop([Top EXCEPT !.pc = "delete"])
  /\ UNCHANGED <<remote, localfs, now, flags, status, extLeft, runsLeft, runKind,
                 lastCall, rwrites, lwrites, prevRemote, prevLocal, srcTree, remote0, pathVars>>

DeleteDelete ==
  /\ Running("doDelete", "delete")
  /\ LET p == Top.path
         r == zkDelete(remote, p, DeleteVersionArg(Top))
     IN  /\ remote' = r.rem
         /\ lastCall' = Call("delete", p, r.err, ChildrenOf(remote, p) # {})
         /\ rwrites' = IF r.err = "ok" THEN rwrites \cup {p} ELSE rwrites
         \* the error c.Delete returns is dropped
         /\ stack' = Popped
  /\ UNCHANGED <<localfs, now, flags, status, extLeft, runsLeft, runKind,
                 lwrites, prevRemote, prevLocal, srcTree, remote0, pathVars>>

---------------------------------------------------------------------------
(* ensureRemotePath *)

EnsureEnter ==
  /\ Running("ensure", "enter")
  /\ stack' =
       IF Top.path = Root
       THEN Popped
       ELSE Append(WithTop([Top EXCEPT !.pc = "create"]),
                   Frame("ensure", "enter", Dir(Top.path), Root))
  /\ UNCHANGED <<remote, localfs, now, flags, status, extLeft, runsLeft, runKind,
                 lastCall, rwrites, lwrites, prevRemote, prevLocal, srcTree, remote0, pathVars>>

EnsureCreate ==
  /\ Running("ensure", "create")
  /\ LET p == Top.path
         r == zkCreate(remote, p, Empty, now)
     IN  /\ remote' = r.rem
         /\ lastCall' = Call("create", p, r.err, ChildrenOf(remote, p) # {})
         /\ rwrites' = IF r.err = "ok" THEN rwrites \cup {p} ELSE rwrites
         /\ IF EnsureTolerated(r.err)
            THEN stack' = Popped /\ status' = status
            ELSE stack' = stack /\ status' = "panic"
  /\ UNCHANGED <<localfs, now, flags, extLeft, runsLeft, runKind,
                 lwrites, prevRemote, prevLocal, srcTree, remote0, pathVars>>

---------------------------------------------------------------------------
(* doUpload *)

UploadStart ==
  /\ Running("doUpload", "start")
  /\ stack' = Append(WithTop([Top EXCEPT !.pc = "walk", !.todo = Walk(localfs)]),
                     Frame("ensure", "enter", ServerPrefix, Root))
  /\ UNCHANGED <<remote, localfs, now, flags, status, extLeft, runsLeft, runKind,
                 lastCall, rwrites, lwrites, prevRemote, prevLocal, srcTree, remote0, pathVars>>

\* the walk's Lstat of a root that is not there: visitFunc returns the error
UploadWalkError ==
  /\ Running("doUpload", "walk")
  /\ Top.todo # <<>>
  /\ localfs[Head(Top.todo)].kind = "none"
  /\ status' = "panic"
  /\ UNCHANGED <<remote, localfs, now, flags, stack, extLeft, runsLeft, runKind,
                 lastCall, rwrites, lwrites, prevRemote, prevLocal, srcTree, remote0, pathVars>>

\* neither a regular file nor a directory
UploadSkip ==
  /\ Running("doUpload", "walk")
  /\ Top.todo # <<>>
  /\ localfs[Head(Top.todo)].kind # "none"
  /\ ~IsSupported(localfs[Head(Top.todo)])
  /\ stack' = WithTop([Top EXCEPT !.todo = Tail(@)])
  /\ UNCHANGED <<remote, localfs, now, flags, status, extLeft, runsLeft, runKind,
                 lastCall, rwrites, lwrites, prevRemote, prevLocal, srcTree, remote0, pathVars>>

UploadCreate ==
  /\ Running("doUpload", "walk")
  /\ Top.todo # <<>>
  /\ localfs[Head(Top.todo)].kind # "none"
  /\ IsSupported(localfs[Head(Top.todo)])
  /\ LET e == localfs[Head(Top.todo)]
         rp == RemotePath(Head(Top.todo))
         r == zkCreate(remote, rp, UploadPayload(e), now)
     IN  /\ remote' = r.rem
         /\ lastCall' = Call("create", rp, r.err, ChildrenOf(remote, rp) # {})
         /\ rwrites' = IF r.err = "ok" THEN rwrites \cup {rp} ELSE rwrites
         /\ CASE r.err = "ok" ->
                   stack' = WithTop([Top EXCEPT !.todo = Tail(@)]) /\ status' = status
              [] r.err = "NodeExists" /\ ~OverwriteOnExists(e) ->
                   stack' = WithTop([Top EXCEPT !.todo = Tail(@)]) /\ status' = status
              [] r.err = "NodeExists" /\ OverwriteOnExists(e) ->
                   stack' = WithTop([Top EXCEPT !.pc = "exists"]) /\ status' = status
              [] OTHER ->
                   stack' = stack /\ status' = "panic"
  /\ UNCHANGED <<localfs, now, flags, extLeft, runsLeft, runKind,
                 lwrites, prevRemote, prevLocal, srcTree, remote0, pathVars>>

UploadExists ==
  /\ Running("doUpload", "exists")
  /\ LET rp == RemotePath(Head(Top.todo))
         st == StatOf(remote, rp)
     IN  /\ lastCall' = Call("exists", rp, "ok", st.numChildren > 0)
         /\ IF ChildConflict(st)
            THEN stack' = stack /\ status' = "panic"
            ELSE /\ stack' = WithTop([Top EXCEPT !.pc = "set", !.version = st.version])
                 /\ status' = status
  /\ UNCHANGED <<remote, localfs, now, flags, extLeft, runsLeft, runKind,
                 rwrites, lwrites, prevRemote, prevLocal, srcTree, remote0, pathVars>>

UploadSet ==
  /\ Running("doUpload", "set")
  /\ LET e == localfs[Head(Top.todo)]
         rp == RemotePath(Head(Top.todo))
         r == zkSet(remote, rp, UploadPayload(e), SetVersionArg(Top), now)
     IN  /\ remote' = r.rem
         /\ lastCall' = Call("set", rp, r.err, ChildrenOf(remote, rp) # {})
         /\ rwrites' = IF r.err = "ok" THEN rwrites \cup {rp} ELSE rwrites
         /\ IF r.err = "ok"
            THEN /\ stack' = WithTop([Top EXCEPT !.pc = "walk", !.todo = Tail(@)])
                 /\ status' = status
            ELSE stack' = stack /\ status' = "panic"
  /\ UNCHANGED <<localfs, now, flags, extLeft, runsLeft, runKind,
                 lwrites, prevRemote, prevLocal, srcTree, remote0, pathVars>>

UploadReturn ==
  /\ Running("doUpload", "walk")
  /\ Top.todo = <<>>
  /\ stack' = Popped
  /\ UNCHANGED <<remote, localfs, now, flags, status, extLeft, runsLeft, runKind,
                 lastCall, rwrites, lwrites, prevRemote, prevLocal, srcTree, remote0, pathVars>>

---------------------------------------------------------------------------
(* doDownload *)

DownloadGet ==
  /\ Running("doDownload", "get")
  /\ LET p == Top.path
         l == Top.lpath
         st == StatOf(remote, p)
         mtime == RemoteMtime(st)
         mk == Mkdir(localfs, l)
     IN  IF ~remote[p].ex
         THEN \* log.Fatalf: the process exits
              /\ lastCall' = Call("get", p, "NoNode", FALSE)
              /\ status' = "fatal"
              /\ UNCHANGED <<stack, localfs, lwrites, remote0, pathVars>>
         ELSE
           /\ lastCall' = Call("get", p, "ok", st.numChildren > 0)
           /\ IF IsDirNode(st)
              THEN IF mk.err = "error"
                   THEN status' = "panic" /\ UNCHANGED <<stack, localfs, lwrites, remote0, pathVars>>
                   ELSE /\ localfs' = mk.fs
                        /\ lwrites' = IF mk.err = "ok" THEN lwrites \cup {l} ELSE lwrites
                        /\ status' = status
                        /\ stack' = IF st.numChildren > 0
                                    THEN WithTop([Top EXCEPT !.pc = "children"])
                                    ELSE Popped
              ELSE IF l # Root /\ localfs[Dir(l)].kind # "dir"
                   THEN \* os.Stat fails, and not with IsNotExist
                        status' = "panic" /\ UNCHANGED <<stack, localfs, lwrites, remote0, pathVars>>
                   ELSE IF localfs[l].kind # "none" /\ SameTime(mtime, localfs[l].mtime)
                   THEN \* "Files are the same"
                        status' = status /\ stack' = Popped /\ UNCHANGED <<localfs, lwrites, remote0, pathVars>>
                   ELSE IF localfs[l].kind \in {"dir", "other"}
                   THEN \* ioutil.WriteFile fails
                        status' = "panic" /\ UNCHANGED <<stack, localfs, lwrites, remote0, pathVars>>
                   ELSE /\ localfs' = WriteFile(localfs, l, remote[p].data, mtime)
                        /\ lwrites' = lwrites \cup {l}
                        /\ status' = status
                        /\ stack' = Popped
  /\ UNCHANGED <<remote, now, flags, extLeft, runsLeft, runKind,
                 rwrites, prevRemote, prevLocal, srcTree, remote0, pathVars>>

DownloadChildren ==
  /\ Running("doDownload", "children")
  /\ LET p == Top.path IN
       IF ~remote[p].ex
       THEN /\ lastCall' = Call("children", p, "NoNode", FALSE)
            /\ status' = "panic"
            /\ stack' = stack
       ELSE /\ lastCall' = Call("children", p, "ok", ChildrenOf(remote, p) # {})
            /\ status' = status
            /\ \E ord \in Orders(ChildNames(remote, p)) :
                 stack' = WithTop([Top EXCEPT !.pc = "loop", !.todo = ord])
  /\ UNCHANGED <<remote, localfs, now, flags, extLeft, runsLeft, runKind,
                 rwrites, lwrites, prevRemote, prevLocal, srcTree, remote0, pathVars>>

DownloadNext ==
  /\ Running("doDownload", "loop")
  /\ stack' =
       IF Top.todo # <<>>
       THEN Append(WithTop([Top EXCEPT !.todo = Tail(@)]),
                   Frame("doDownload", "get", Join(Top.path, Head(Top.todo)),
                         Join(Top.lpath, Head(Top.todo))))
       ELSE Popped
  /\ UNCHANGED <<remote, localfs, now, flags, status, extLeft, runsLeft, runKind,
                 lastCall, rwrites, lwrites, prevRemote, prevLocal, srcTree, remote0, pathVars>>

---------------------------------------------------------------------------
(* The operator runs the tool again *)

EmptyDir(t) == [u \in Rel |-> IF u = Root THEN DirEntry(t) ELSE NoEntry]

\* the same command line once more
RunAgain ==
  /\ status = "done"
  /\ runsLeft > 0
  /\ runsLeft' = runsLeft - 1
  /\ runKind' = "repeat"
  /\ status' = "init"
  /\ now' = now + MsPerSec
  /\ prevRemote' = remote
  /\ prevLocal' = localfs
  /\ rwrites' = {}
  /\ lwrites' = {}
  /\ lastCall' = NoCall
  /\ UNCHANGED <<remote, localfs, flags, stack, extLeft, srcTree, remote0, pathVars>>

\* after an upload, a download of the same prefix into an empty directory
RunDownloadElsewhere ==
  /\ status = "done"
  /\ runsLeft > 0
  /\ flags.upload
  /\ runsLeft' = runsLeft - 1
  /\ runKind' = "fresh"
  /\ flags' = [upload |-> FALSE, delete |-> FALSE]
  /\ status' = "init"
  /\ now' = now + MsPerSec
  /\ srcTree' = localfs
  /\ localfs' = EmptyDir(now)
  /\ prevRemote' = remote
  /\ prevLocal' = EmptyDir(now)
  /\ rwrites' = {}
  /\ lwrites' = {}
  /\ lastCall' = NoCall
  /\ UNCHANGED <<remote, stack, extLeft, remote0, pathVars>>

---------------------------------------------------------------------------
(* Another actor on the namespace *)

ExtSet ==
  /\ status = "running"
  /\ extLeft > 0
  /\ \E p \in RPaths \ {Root} :
       /\ remote[p].ex
       /\ remote' = zkSet(remote, p, Y, -1, now + MsPerSec \div 2).rem
  /\ now' = now + MsPerSec \div 2
  /\ extLeft' = extLeft - 1
  /\ UNCHANGED <<localfs, flags, status, stack, runsLeft, runKind, lastCall,
                 rwrites, lwrites, prevRemote, prevLocal, srcTree, remote0, pathVars>>

ExtCreate ==
  /\ status = "running"
  /\ extLeft > 0
  /\ \E p \in RPaths \ {Root}, d \in {Empty, Y} :
       /\ zkCreate(remote, p, d, now + MsPerSec \div 2).err = "ok"
       /\ remote' = zkCreate(remote, p, d, now + MsPerSec \div 2).rem
  /\ now' = now + MsPerSec \div 2
  /\ extLeft' = extLeft - 1
  /\ UNCHANGED <<localfs, flags, status, stack, runsLeft, runKind, lastCall,
                 rwrites, lwrites, prevRemote, prevLocal, srcTree, remote0, pathVars>>

ExtDelete ==
  /\ status = "running"
  /\ extLeft > 0
  /\ \E p \in RPaths \ {Root} :
       /\ zkDelete(remote, p, -1).err = "ok"
       /\ remote' = zkDelete(remote, p, -1).rem
  /\ extLeft' = extLeft - 1
  /\ UNCHANGED <<localfs, now, flags, status, stack, runsLeft, runKind, lastCall,
                 rwrites, lwrites, prevRemote, prevLocal, srcTree, remote0, pathVars>>

---------------------------------------------------------------------------
(* Paths as strings: a string is the sequence of its characters *)

Slash == <<"/">>

Dot == <<".">>

DotDot == <<".", ".">>

\* the characters of the prefixes considered
Chars == {"/", ".", "a"}

\* the names of the entries and nodes below the prefixes
ChildStrs == {<<"a">>, <<"b">>}

\* os.Getwd, which filepath.Abs joins a relative path to
Cwd == <<"/", "w">>

Strings(n) == UNION {[1..k -> Chars] : k \in 0..n}

NameSeqs(n) == UNION {[1..k -> ChildStrs] : k \in 0..n}

\* s[n:]
Drop(s, n) == SubSeq(s, n + 1, Len(s))

RECURSIVE SplitSlash(_)
\* strings.Split(s, "/")
SplitSlash(s) ==
  IF \A i \in DOMAIN s : s[i] # "/" THEN <<s>>
  ELSE LET i == CHOOSE k \in DOMAIN s : s[k] = "/" /\ \A j \in 1..(k - 1) : s[j] # "/"
       IN  <<SubSeq(s, 1, i - 1)>> \o SplitSlash(Drop(s, i))

RECURSIVE JoinSlash(_)
\* strings.Join(elems, "/")
JoinSlash(elems) ==
  IF elems = <<>> THEN <<>>
  ELSE IF Len(elems) = 1 THEN elems[1]
  ELSE elems[1] \o Slash \o JoinSlash(Tail(elems))

RECURSIVE CleanElems(_, _, _)
\* the loop of path.Clean over the elements of the path: empty and "."
\* elements go, ".." takes the element before it away, is dropped at the root
\* and kept at the front of a relative path
CleanElems(elems, out, rooted) ==
  IF elems = <<>> THEN out
  ELSE LET e == Head(elems)
           rest == Tail(elems)
       IN  IF e = <<>> \/ e = Dot THEN CleanElems(rest, out, rooted)
           ELSE IF e = DotDot
           THEN IF out # <<>> /\ out[Len(out)] # DotDot
                THEN CleanElems(rest, SubSeq(out, 1, Len(out) - 1), rooted)
                ELSE IF rooted THEN CleanElems(rest, out, rooted)
                ELSE CleanElems(rest, Append(out, e), rooted)
           ELSE CleanElems(rest, Append(out, e), rooted)

\* path.Clean (filepath.Clean is the same on a slash-separated system)
Clean(s) ==
  IF s = <<>> THEN Dot
  ELSE LET rooted == s[1] = "/"
           out == CleanElems(SplitSlash(s), <<>>, rooted)
       IN  IF rooted THEN Slash \o JoinSlash(out)
           ELSE IF out = <<>> THEN Dot
           ELSE JoinSlash(out)

\* path.Join(a, b), filepath.Join(a, b): empty elements are ignored
PathJoin(a, b) ==
  IF a = <<>> /\ b = <<>> THEN <<>>
  ELSE IF a = <<>> THEN Clean(b)
  ELSE IF b = <<>> THEN Clean(a)
  ELSE Clean(a \o Slash \o b)

\* path.Dir: what is left of the last slash, the slash included, cleaned
PathDir(s) ==
  LET slashes == {i \in DOMAIN s : s[i] = "/"}
      last == IF slashes = {} THEN 0
              ELSE CHOOSE i \in slashes : \A j \in slashes : j <= i
  IN  Clean(SubSeq(s, 1, last))

\* filepath.Abs
Abs(s) == IF s # <<>> /\ s[1] = "/" THEN Clean(s) ELSE PathJoin(Cwd, s)

\* a path the ZooKeeper service takes: absolute, no slash at the end, no
\* empty, "." or ".." element
ValidZkPath(s) ==
  /\ s # <<>>
  /\ s[1] = "/"
  /\ s = Slash \/ \A i \in 2..Len(SplitSlash(s)) :
                    SplitSlash(s)[i] \notin {<<>>, Dot, DotDot}

\* the remote root and the suffix put one after the other
ConcatRemotePath(server, absLocal, visitedPath) ==
  server \o Drop(visitedPath, Len(absLocal))

\* remotePath := path.Join(*serverPrefix, visitedPath[len(absLocal):])
RemotePathStr(server, absLocal, visitedPath) ==
  PathJoin(server, Drop(visitedPath, Len(absLocal)))

NoWalk == [names |-> <<>>, local |-> <<>>, remote |-> <<>>]

EnsureFrame(arg, pc) == [arg |-> arg, pc |-> pc]

\* the strings are not looked at
PathIdle ==
  /\ serverPrefixStr = <<>>
  /\ localPrefixStr = <<>>
  /\ pathRun = "off"
  /\ ensureStack = <<>>
  /\ walkAt = NoWalk

---------------------------------------------------------------------------
(* Initial states *)

WellFormedLocal(fs) ==
  \A u \in Rel : u # Root /\ fs[u].kind # "none" => fs[Dir(u)].kind = "dir"

\* the trees whose entry at u is one of entries[u]
LocalTrees(entries) ==
  {fs \in [Rel -> UNION {entries[u] : u \in Rel}] :
     WellFormedLocal(fs) /\ \A u \in Rel : fs[u] \in entries[u]}

WellFormedRemote(rem) ==
  /\ rem[Root].ex
  /\ \A p \in RPaths : p # Root /\ rem[p].ex => rem[Dir(p)].ex

\* the namespaces whose node at p is one of nodes[p]
RemoteTrees(nodes) ==
  {rem \in [RPaths -> UNION {nodes[p] : p \in RPaths}] :
     WellFormedRemote(rem) /\ \A p \in RPaths : rem[p] \in nodes[p]}

Modes == {[upload |-> TRUE, delete |-> FALSE],
          [upload |-> TRUE, delete |-> TRUE],
          [upload |-> FALSE, delete |-> FALSE]}

InitWith(locals, remotes, ext, runs) ==
  /\ flags \in Modes
  /\ localfs \in locals
  \* a download meets directories and regular files only
  /\ ~flags.upload => \A u \in Rel : localfs[u].kind # "other"
  /\ remote \in remotes
  /\ now = 3 * MsPerSec
  /\ status = "init"
  /\ stack = <<>>
  /\ extLeft = ext
  /\ runsLeft = runs
  /\ runKind = "first"
  /\ lastCall = NoCall
  /\ rwrites = {}
  /\ lwrites = {}
  /\ prevRemote = remote
  /\ prevLocal = localfs
  /\ srcTree = localfs
  /\ remote0 = remote
  /\ PathIdle

Program ==
  \/ MainStart \/ MainAfterDelete \/ MainDone
  \/ DeleteChildren \/ DeleteNext \/ DeleteDelete
  \/ EnsureEnter \/ EnsureCreate
  \/ UploadStart \/ UploadWalkError \/ UploadSkip \/ UploadCreate
  \/ UploadExists \/ UploadSet \/ UploadReturn
  \/ DownloadGet \/ DownloadChildren \/ DownloadNext

(* One run with another actor on the namespace *)

SmallLocal(t) ==
  [u \in Rel |->
     CASE u = Root -> {NoEntry, DirEntry(t)}
       [] u = <<"a">> -> {NoEntry, DirEntry(t), FileEntry(X, t)}
       [] u = <<"a", "c">> -> {NoEntry, FileEntry(X, t)}
       [] OTHER -> {NoEntry, OtherEntry(t)}]

SmallRemote(t) ==
  [p \in RPaths |->
     CASE p = Root -> {Node(Empty, 0, t)}
       [] Len(p) < Len(ServerPrefix) -> {Absent, Node(Empty, 0, t)}
       [] p \in {ServerPrefix, RemotePath(<<"a">>)} ->
            {Absent, Node(Empty, 0, t), Node(X, 0, t)}
       [] OTHER -> {Absent, Node(X, 0, t)}]

Init ==
  InitWith(LocalTrees(SmallLocal(MsPerSec)), RemoteTrees(SmallRemote(MsPerSec)),
           MaxExt, 0)

Next == Program \/ ExtSet \/ ExtCreate \/ ExtDelete

Spec == Init /\ [][Next]_vars

(* One run while another actor only sets the data of existing nodes *)

NextData == Program \/ ExtSet

SpecData == Init /\ [][NextData]_vars

(* One run while another actor sets data and creates nodes, but deletes none *)

NextGrow == Program \/ ExtSet \/ ExtCreate

SpecGrow == Init /\ [][NextGrow]_vars

(* Runs in sequence, nobody else on the namespace *)

AnyLocal(t) ==
  [u \in Rel |-> {NoEntry, DirEntry(t), OtherEntry(t), FileEntry(Empty, t), FileEntry(X, t)}]

AnyRemote(t) ==
  [p \in RPaths |->
     CASE p = Root -> {Node(Empty, 0, t)}
       [] Len(p) < Len(ServerPrefix) -> {Absent, Node(Empty, 0, t)}
       [] OTHER -> {Absent, Node(Empty, 0, t), Node(X, 0, t)}]

InitSeq ==
  \E tr \in {MsPerSec, MsPerSec + MsPerSec \div 2, 2 * MsPerSec},
     tl \in {MsPerSec, 2 * MsPerSec} :
    /\ InitWith(LocalTrees(AnyLocal(tl)), RemoteTrees(AnyRemote(tr)), 0, MaxRuns - 1)
    \* the times matter to a download only
    /\ flags.upload => tr = MsPerSec /\ tl = MsPerSec

NextSeq == Program \/ RunAgain \/ RunDownloadElsewhere

SpecSeq == InitSeq /\ [][NextSeq]_vars

---------------------------------------------------------------------------
(* The runs at the level of the path strings, nobody else on the namespace *)

EnsureTop == ensureStack[Len(ensureStack)]

\* ensureRemotePath: the test for "/" and the call on path.Dir
PathEnsureEnter ==
  /\ pathRun = "ensure"
  /\ ensureStack # <<>>
  /\ EnsureTop.pc = "enter"
  /\ IF EnsureTop.arg = Slash
     THEN ensureStack' = SubSeq(ensureStack, 1, Len(ensureStack) - 1)
     ELSE /\ Len(ensureStack) < MaxNest
          /\ ensureStack' =
               Append([ensureStack EXCEPT ![Len(ensureStack)] =
                         EnsureFrame(EnsureTop.arg, "create")],
                      EnsureFrame(PathDir(EnsureTop.arg), "enter"))
  /\ UNCHANGED <<serverPrefixStr, localPrefixStr, pathRun, walkAt, treeVars>>

\* ensureRemotePath: c.Create once the parent is there; the service takes
\* the path or the create fails and the run panics
PathEnsureCreate ==
  /\ pathRun = "ensure"
  /\ ensureStack # <<>>
  /\ EnsureTop.pc = "create"
  /\ IF ValidZkPath(EnsureTop.arg)
     THEN /\ ensureStack' = SubSeq(ensureStack, 1, Len(ensureStack) - 1)
          /\ pathRun' = pathRun
     ELSE /\ ensureStack' = ensureStack
          /\ pathRun' = "panic"
  /\ UNCHANGED <<serverPrefixStr, localPrefixStr, walkAt, treeVars>>

\* filepath.Walk calls visitFunc on absLocal itself first
PathWalkRoot ==
  /\ pathRun = "ensure"
  /\ ensureStack = <<>>
  /\ pathRun' = "walk"
  /\ walkAt' = [names |-> <<>>,
                local |-> Abs(localPrefixStr),
                remote |-> RemotePathStr(serverPrefixStr, Abs(localPrefixStr),
                                         Abs(localPrefixStr))]
  /\ UNCHANGED <<serverPrefixStr, localPrefixStr, ensureStack, treeVars>>

\* filepath.Walk joins the name of an entry to the directory's path and
\* visitFunc computes remotePath from it
PathUploadVisit ==
  /\ pathRun = "walk"
  /\ Len(walkAt.names) < MaxNames
  /\ \E child \in ChildStrs :
       LET visitedPath == PathJoin(walkAt.local, child) IN
         walkAt' = [names |-> Append(walkAt.names, child),
                    local |-> visitedPath,
                    remote |-> RemotePathStr(serverPrefixStr, Abs(localPrefixStr),
                                             visitedPath)]
  /\ UNCHANGED <<serverPrefixStr, localPrefixStr, pathRun, ensureStack, treeVars>>

\* doDownload(c, serverPrefix, localPrefix) from main: c.Get on the prefix
\* as it was given
PathDownloadGet ==
  /\ pathRun = "get"
  /\ pathRun' = IF ValidZkPath(walkAt.remote) THEN "download" ELSE "panic"
  /\ UNCHANGED <<serverPrefixStr, localPrefixStr, ensureStack, walkAt, treeVars>>

\* doDownload: fullpath and fulllocalpath of a child
PathDownloadDescend ==
  /\ pathRun = "download"
  /\ Len(walkAt.names) < MaxNames
  /\ \E child \in ChildStrs :
       walkAt' = [names |-> Append(walkAt.names, child),
                  local |-> PathJoin(walkAt.local, child),
                  remote |-> PathJoin(walkAt.remote, child)]
  /\ UNCHANGED <<serverPrefixStr, localPrefixStr, pathRun, ensureStack, treeVars>>

\* the trees are not looked at
TreeIdle ==
  /\ flags \in {m \in Modes : ~m.delete}
  /\ remote = [p \in RPaths |-> IF p = Root THEN Node(Empty, 0, 0) ELSE Absent]
  /\ localfs = [u \in Rel |-> NoEntry]
  /\ now = 0
  /\ status = "off"
  /\ stack = <<>>
  /\ extLeft = 0
  /\ runsLeft = 0
  /\ runKind = "first"
  /\ lastCall = NoCall
  /\ rwrites = {}
  /\ lwrites = {}
  /\ prevRemote = remote
  /\ prevLocal = localfs
  /\ srcTree = localfs
  /\ remote0 = remote

InitPath ==
  /\ TreeIdle
  /\ serverPrefixStr \in Strings(MaxServerLen)
  /\ localPrefixStr \in Strings(MaxLocalLen)
  /\ IF flags.upload
     THEN /\ pathRun = "ensure"
          /\ ensureStack = <<EnsureFrame(serverPrefixStr, "enter")>>
          /\ walkAt = NoWalk
     ELSE /\ pathRun = "get"
          /\ ensureStack = <<>>
          /\ walkAt = [names |-> <<>>, local |-> localPrefixStr,
                       remote |-> serverPrefixStr]

NextPath ==
  \/ PathEnsureEnter \/ PathEnsureCreate \/ PathWalkRoot \/ PathUploadVisit
  \/ PathDownloadGet \/ PathDownloadDescend

SpecPath == InitPath /\ [][NextPath]_vars

---------------------------------------------------------------------------
(* Properties *)

\* a step of the program, as opposed to one of the other actor
ProgStep == stack' # stack \/ status' # status

Finished == status \in {"done", "panic", "fatal"}

\* the remote paths of the local regular files
FilePaths(fs) == {RemotePath(u) : u \in {v \in Rel : fs[v].kind = "file"}}

\* C1: deleteNode is never issued for a node that still has children at the
\* moment of the call, whatever the other actor does and whether or not the
\* deleteNode of a child failed.
C1_NoDeleteOfParentWithChildren ==
  lastCall.op = "delete" => ~lastCall.kids

\* C8: a deleteNode rejected for its version aborts the run.
C8_DeleteVersionConflictAborts ==
  (lastCall.op = "delete" /\ lastCall.err = "BadVersion") => status = "panic"

\* download is about to decide on a file node whose local file exists
AtFileNodeWithLocalFile ==
  /\ Running("doDownload", "get")
  /\ remote[Top.path].ex
  /\ remote[Top.path].data # Empty
  /\ localfs[Top.lpath].kind = "file"

\* C2: with T_remote the node's modification timestamp and T_local the local
\* file's modification time, download overwrites the local file iff
\* T_remote > T_local, leaves it untouched and goes on iff T_remote < T_local,
\* and writes nothing iff T_remote = T_local.  Stated for timestamps that are
\* whole seconds, which the conversion to time.Time leaves as they are.
C2_DownloadConflictResolution ==
  [][(AtFileNodeWithLocalFile /\ remote[Top.path].mtime % MsPerSec = 0) =>
       LET l == Top.lpath
           tr == remote[Top.path].mtime
           tl == localfs[l].mtime
       IN  /\ tr > tl => /\ l \in lwrites'
                         /\ localfs'[l].content = remote[Top.path].data
           /\ tr < tl => /\ localfs'[l] = localfs[l]
                         /\ l \notin lwrites'
                         /\ status' = status
           /\ tr = tl => /\ localfs' = localfs
                         /\ l \notin lwrites']_vars

\* the two trees hold the same kinds and the same file contents everywhere
SameTree(fs1, fs2) ==
  \A u \in Rel :
    /\ fs1[u].kind = fs2[u].kind
    /\ fs1[u].kind = "file" => fs1[u].content = fs2[u].content

\* a tree of directories and regular files
PlainTree(fs) ==
  /\ fs[Root].kind = "dir"
  /\ \A u \in Rel : fs[u].kind \in {"none", "dir", "file"}

\* C3: a tree of directories and regular files (empty files included),
\* uploaded to a prefix that held nothing and downloaded from there into an
\* empty directory, comes back the same at every relative path.
C3_RoundTrip ==
  (/\ runKind = "fresh"
   /\ Finished
   /\ PlainTree(srcTree)
   /\ \A u \in Rel : ~remote0[RemotePath(u)].ex)
  => (status = "done" /\ SameTree(srcTree, localfs))

\* an upload without -delete, run after the same upload completed, has ended
SecondUploadDone ==
  /\ status = "done"
  /\ runKind = "repeat"
  /\ flags.upload
  /\ ~flags.delete

\* C4 as claimed: the second of two uploads of an unchanged tree writes
\* nothing: every payload and every version counter is as the first left it.
C4_SecondUploadWritesNothing ==
  SecondUploadDone =>
    /\ rwrites = {}
    /\ \A p \in RPaths : /\ remote[p].data = prevRemote[p].data
                         /\ remote[p].version = prevRemote[p].version

\* C4 as amended: the second upload creates no node and changes no payload;
\* it sets the node of every local regular file, and no other node, to the
\* content it already holds, so that those nodes' version counters are one
\* higher and all other nodes are as the first run left them.
C4_SecondUploadRewritesFilesOnly ==
  SecondUploadDone =>
    /\ rwrites = FilePaths(localfs)
    /\ \A p \in RPaths :
         /\ remote[p].ex = prevRemote[p].ex
         /\ remote[p].data = prevRemote[p].data
         /\ remote[p].version =
              prevRemote[p].version + (IF p \in FilePaths(localfs) THEN 1 ELSE 0)

C4_Witness ==
  /\ SecondUploadDone
  /\ \E u \in Rel : /\ localfs[u].kind = "file"
                    /\ remote[RemotePath(u)].version = 1
  /\ \E u \in Rel : /\ localfs[u].kind = "dir"
                    /\ u # Root
                    /\ remote[RemotePath(u)].version = 0

\* C5: the second of two downloads of an unchanged namespace writes nothing
\* on the local side: no content and no modification time changes.
C5_SecondDownloadWritesNothing ==
  (status = "done" /\ runKind = "repeat" /\ ~flags.upload) =>
    (lwrites = {} /\ localfs = prevLocal)

C5_Witness ==
  /\ status = "done"
  /\ runKind = "repeat"
  /\ ~flags.upload
  /\ \E u \in Rel :
       \* a file the first run wrote, from a node whose time is no whole second
       /\ srcTree[u].kind = "none"
       /\ localfs[u] = FileEntry(X, MsPerSec)
       /\ remote[RemotePath(u)].data = X
       /\ remote[RemotePath(u)].mtime = MsPerSec + MsPerSec \div 2

\* C6: when upload finds that the node at the path of a regular file has
\* children, the run panics there and then; creating over the existing node
\* and asking for its Stat changed nothing in the namespace, and after the
\* panic the program issues no further call.
C6_FileOverNodeWithChildrenAborts ==
  [][/\ (Running("doUpload", "exists") /\ ProgStep
           /\ ChildrenOf(remote, RemotePath(Head(Top.todo))) # {})
        => (status' = "panic" /\ remote' = remote)
     /\ (Running("doUpload", "walk") /\ ProgStep /\ Top.todo # <<>>
           /\ remote[RemotePath(Head(Top.todo))].ex)
        => remote' = remote
     /\ status = "panic" => (lastCall' = lastCall /\ status' = "panic")]_vars

C6_Witness ==
  /\ status = "panic"
  /\ lastCall.op = "exists"
  /\ lastCall.kids
  /\ localfs[<<"a">>].kind = "file"
  /\ lastCall.path = RemotePath(<<"a">>)
  /\ remote[RemotePath(<<"a", "c">>)].ex

\* C7: the set that overwrites a file node names the version the preceding
\* exists returned; if the node's version is another one by then, the set is
\* rejected, the namespace keeps what the other writer wrote, the run panics
\* and the program issues no further call.
C7_OptimisticOverwrite ==
  [][/\ (Running("doUpload", "exists") /\ ProgStep /\ status' = "running")
        => /\ Top'.pc = "set"
           /\ Top'.version = remote[RemotePath(Head(Top.todo))].version
     /\ (Running("doUpload", "set") /\ ProgStep)
        => /\ lastCall'.op = "set"
           /\ lastCall'.path = RemotePath(Head(Top.todo))
           /\ remote[lastCall'.path].version # Top.version
                => /\ lastCall'.err \in {"BadVersion", "NoNode"}
                   /\ remote' = remote
                   /\ status' = "panic"
     /\ status = "panic" => (lastCall' = lastCall /\ status' = "panic")]_vars

C7_Witness ==
  /\ status = "panic"
  /\ lastCall.op = "set"
  /\ lastCall.err = "BadVersion"
  /\ remote[lastCall.path].data = Y
  /\ remote[lastCall.path].version = 1

\* C9: a download that finds no node at the prefix returns to its caller,
\* which goes on to finish normally, and writes nothing on the local side.
C9_MissingRootIsNotFatal ==
  (lastCall.op = "get" /\ lastCall.path = ServerPrefix /\ lastCall.err = "NoNode")
    => (status \in {"running", "done"} /\ lwrites = {})

\* C10: an upload that finds a node with a payload at the path of a local
\* directory panics, as does one that finds a node with children at the path
\* of a local file.
C10_StructuralConflictAborts ==
  [][/\ (/\ Running("doUpload", "walk")
         /\ ProgStep
         /\ Top.todo # <<>>
         /\ localfs[Head(Top.todo)].kind = "dir"
         /\ remote[RemotePath(Head(Top.todo))].ex
         /\ remote[RemotePath(Head(Top.todo))].data # Empty)
        => status' = "panic"
     /\ (/\ Running("doUpload", "exists")
         /\ ProgStep
         /\ ChildrenOf(remote, RemotePath(Head(Top.todo))) # {})
        => status' = "panic"]_vars

\* download is about to look at a node that has both a payload and children
AtFileNodeWithChildren ==
  /\ Running("doDownload", "get")
  /\ remote[Top.path].ex
  /\ remote[Top.path].data # Empty
  /\ ChildrenOf(remote, Top.path) # {}

\* C11: when download reaches a node that has a non-empty payload and also
\* children, it aborts there: the run ends in a panic or a fatal error and
\* the node is not written as a local file.
C11_PayloadWithChildrenAborts ==
  [][(AtFileNodeWithChildren /\ ProgStep) =>
       /\ status' \in {"panic", "fatal"}
       /\ localfs' = localfs]_vars

\* C12: every create of ensure follows the create of its parent path (root to
\* leaf); a create that finds the node changes nothing and the run goes on;
\* any other failure panics with the namespace as it was and no further
\* call; and when ensure(path) returns, a node exists at path and at every
\* ancestor of it.
C12_EnsurePostcondition ==
  [][/\ (Running("ensure", "create") /\ ProgStep) =>
          LET p == Top.path IN
            /\ lastCall'.op = "create"
            /\ lastCall'.path = p
            /\ Len(p) > 1 => (lastCall.op = "create" /\ lastCall.path = Dir(p))
            /\ lastCall'.err = "NodeExists" => (remote' = remote /\ status' = "running")
            /\ lastCall'.err \notin {"ok", "NodeExists"} =>
                 (remote' = remote /\ status' = "panic")
            /\ status' = "running" =>
                 /\ stack' = Popped
                 /\ \A n \in 0..Len(p) : remote'[SubSeq(p, 1, n)].ex
     /\ status = "panic" => (lastCall' = lastCall /\ status' = "panic")]_vars

\* ensure created /p, then found /p/r made by somebody else in between
C12_Witness ==
  /\ status = "running"
  /\ lastCall = Call("create", ServerPrefix, "NodeExists", FALSE)
  /\ Dir(ServerPrefix) \in rwrites
  /\ remote[ServerPrefix].data = Y
  /\ remote[ServerPrefix].version = 0

C12_WitnessAbort ==
  /\ status = "panic"
  /\ lastCall = Call("create", ServerPrefix, "NoNode", FALSE)

\* C14: the visit of an entry that is neither a regular file nor a directory
\* issues no call and changes nothing remote, does not end the run, and
\* leaves the rest of the walk to be visited; when the upload returns, every
\* directory and regular file of the tree has its node, a file's node with
\* the file's content.
C14_UnsupportedSkipped ==
  [][/\ (/\ Running("doUpload", "walk")
         /\ ProgStep
         /\ Top.todo # <<>>
         /\ localfs[Head(Top.todo)].kind = "other")
        => /\ lastCall' = lastCall
           /\ remote' = remote
           /\ rwrites' = rwrites
           /\ status' = "running"
           /\ stack' = WithTop([Top EXCEPT !.todo = Tail(@)])
     /\ (Running("main", "ret") /\ ProgStep /\ flags.upload)
        => \A u \in Rel :
             /\ localfs[u].kind \in {"dir", "file"} => remote[RemotePath(u)].ex
             /\ localfs[u].kind = "file" => remote[RemotePath(u)].data = localfs[u].content]_vars

\* the unsupported entry a was passed over and the file b after it uploaded
C14_Witness ==
  /\ status = "done"
  /\ flags.upload
  /\ runKind = "first"
  /\ localfs[<<"a">>].kind = "other"
  /\ ~remote[RemotePath(<<"a">>)].ex
  /\ localfs[<<"b">>] = FileEntry(X, MsPerSec)
  /\ RemotePath(<<"b">>) \in rwrites
  /\ remote[RemotePath(<<"b">>)].data = X

\* C15: when upload issues the create for the path of a local directory or
\* regular file, the parent of that path has a node, and the create does not
\* fail for a missing parent; nobody but the run itself deletes nodes.
C15_ParentPresentAtCreate ==
  [][(/\ Running("doUpload", "walk")
      /\ ProgStep
      /\ Top.todo # <<>>
      /\ localfs[Head(Top.todo)].kind \in {"dir", "file"})
     => /\ lastCall'.op = "create"
        /\ lastCall'.path = RemotePath(Head(Top.todo))
        /\ remote[Dir(RemotePath(Head(Top.todo)))].ex
        /\ lastCall'.err # "NoNode"]_vars

\* the node of a/c was created below the node of a, itself created by this run
C15_Witness ==
  /\ status = "running"
  /\ lastCall = Call("create", RemotePath(<<"a", "c">>), "ok", FALSE)
  /\ RemotePath(<<"a">>) \in rwrites
  /\ ServerPrefix \in rwrites

\* C16: when delete or download looks up a path it got from a listing (any
\* path below the prefix) and the node is no longer there, the run aborts.
C16_MissingChildIsFatal ==
  (/\ lastCall.op \in {"children", "get"}
   /\ lastCall.err = "NoNode"
   /\ lastCall.path # ServerPrefix)
  => status \in {"panic", "fatal"}

\* C17: when download writes a local file, the file's modification time
\* afterwards is the node's modification timestamp, to the millisecond.
C17_ExactTimestamp ==
  [][(/\ Running("doDownload", "get")
      /\ ProgStep
      /\ remote[Top.path].ex
      /\ remote[Top.path].data # Empty
      /\ Top.lpath \notin lwrites
      /\ Top.lpath \in lwrites')
     => /\ localfs'[Top.lpath].content = remote[Top.path].data
        /\ localfs'[Top.lpath].mtime = remote[Top.path].mtime]_vars

\* C18: with nobody else on the namespace, every delete the run issues names
\* the node's current version and is accepted; when doDelete has returned to
\* main, no node is left at or below the prefix, and the ancestors of the
\* prefix are as they were when the run started.
C18_DeletePostcondition ==
  [][/\ (Running("doDelete", "delete") /\ ProgStep)
        => /\ Top.version = remote[Top.path].version
           /\ lastCall'.op = "delete"
           /\ lastCall'.path = Top.path
           /\ lastCall'.err = "ok"
           /\ ~remote'[Top.path].ex
     /\ (Running("main", "afterDelete") /\ ProgStep)
        => /\ \A u \in Rel : ~remote[RemotePath(u)].ex
           /\ \A p \in RPaths : Len(p) < Len(ServerPrefix) => remote[p] = prevRemote[p]]_vars

\* a prefix with a child and a grandchild has been deleted, leaves first
C18_Witness ==
  /\ Running("main", "afterDelete")
  /\ rwrites = {ServerPrefix, RemotePath(<<"a">>), RemotePath(<<"a", "c">>)}
  /\ prevRemote[RemotePath(<<"a", "c">>)].ex
  /\ ~remote[ServerPrefix].ex
  /\ remote[Dir(ServerPrefix)].ex

\* the remote paths of the local directories and regular files
SupportedPaths(fs) == {RemotePath(u) : u \in {v \in Rel : fs[v].kind \in {"dir", "file"}}}

\* the paths at or below the prefix that have a node
SubtreePaths(rem) == {p \in {RemotePath(u) : u \in Rel} : rem[p].ex}

\* every node of a local file holds its content, that of a directory nothing
NodesHoldTree(rem, fs) ==
  \A u \in Rel :
    /\ fs[u].kind = "file" => rem[RemotePath(u)].data = fs[u].content
    /\ fs[u].kind = "dir" => rem[RemotePath(u)].data = Empty

\* an upload without -delete deletes nothing, and when it is done the nodes
\* that are not the node of a local directory or file are as they were
UploadAloneKeepsTheRest ==
  (flags.upload /\ ~flags.delete) =>
    /\ lastCall.op # "delete"
    /\ \A p \in RPaths : prevRemote[p].ex => remote[p].ex
    /\ status = "done" =>
         \A p \in RPaths \ SupportedPaths(localfs) :
           prevRemote[p].ex => remote[p] = prevRemote[p]

\* C19 as claimed: after an upload with -delete the paths at or below the
\* prefix that have a node are exactly the paths of the local directories and
\* regular files, with the files' contents and empty payloads for the
\* directories; an upload without -delete deletes no node and leaves the
\* nodes without a local counterpart as they were.
C19_MirrorAfterDeleteUpload ==
  /\ (status = "done" /\ flags.upload /\ flags.delete) =>
       /\ SubtreePaths(remote) = SupportedPaths(localfs)
       /\ NodesHoldTree(remote, localfs)
  /\ UploadAloneKeepsTheRest

\* C19 as amended: the same, with the prefix itself always among the paths
\* that have a node after the run, since ensure creates it whatever the
\* local root is.
C19_MirrorWithPrefix ==
  /\ (status = "done" /\ flags.upload /\ flags.delete) =>
       /\ SubtreePaths(remote) = SupportedPaths(localfs) \cup {ServerPrefix}
       /\ NodesHoldTree(remote, localfs)
  /\ UploadAloneKeepsTheRest

\* the stale node of b is gone and the file a is there with its content
C19_Witness ==
  /\ status = "done"
  /\ flags.upload
  /\ flags.delete
  /\ runKind = "first"
  /\ remote0[RemotePath(<<"b">>)].data = X
  /\ localfs[<<"b">>].kind = "none"
  /\ ~remote[RemotePath(<<"b">>)].ex
  /\ localfs[<<"a">>].kind = "file"
  /\ remote[RemotePath(<<"a">>)].data = localfs[<<"a">>].content

RECURSIVE JoinAll(_, _)
\* the path reached from root by joining the names one after the other
JoinAll(root, names) ==
  IF names = <<>> THEN root
  ELSE JoinAll(PathJoin(root, Head(names)), Tail(names))

RECURSIVE Suffix(_)
\* the names as a relative suffix: /n1/n2
Suffix(names) ==
  IF names = <<>> THEN <<>> ELSE Slash \o Head(names) \o Suffix(Tail(names))

\* the path with that suffix under root
Under(root, names) ==
  IF names = <<>> THEN root
  ELSE IF root = Slash THEN Suffix(names)
  ELSE root \o Suffix(names)

\* the remote path upload computes for the entry with these names
UploadRemote(names) ==
  RemotePathStr(serverPrefixStr, Abs(localPrefixStr),
                JoinAll(Abs(localPrefixStr), names))

\* C13: the entry upload visits with the relative suffix s under the local
\* root gets the remote path with the same suffix s under the remote root;
\* download reaches that remote path by the same names and pairs it with a
\* local path that denotes the visited entry again; no other entry gets the
\* same remote path.  Symmetrically, the node download visits is paired
\* with the local path of the same suffix, upload maps that local path to
\* the node's path, and no other node is paired with the same local path.
C13_PathMappingBijection ==
  /\ pathRun = "walk" =>
       /\ walkAt.local = Under(Abs(localPrefixStr), walkAt.names)
       /\ walkAt.remote = Under(serverPrefixStr, walkAt.names)
       /\ JoinAll(serverPrefixStr, walkAt.names) = walkAt.remote
       /\ Abs(JoinAll(localPrefixStr, walkAt.names)) = walkAt.local
       /\ \A other \in NameSeqs(MaxNames) :
            other # walkAt.names => UploadRemote(other) # walkAt.remote
  /\ pathRun = "download" =>
       /\ walkAt.remote = Under(serverPrefixStr, walkAt.names)
       /\ Abs(walkAt.local) = Under(Abs(localPrefixStr), walkAt.names)
       /\ UploadRemote(walkAt.names) = walkAt.remote
       /\ JoinAll(Abs(localPrefixStr), walkAt.names) = Abs(walkAt.local)
       /\ \A other \in NameSeqs(MaxNames) :
            other # walkAt.names =>
              Abs(JoinAll(localPrefixStr, other)) # Abs(walkAt.local)

\* upload of the local prefix "/" to "/a" visits /a/b and maps it to /a/a/b
C13_Witness ==
  /\ pathRun = "walk"
  /\ serverPrefixStr = <<"/", "a">>
  /\ localPrefixStr = Slash
  /\ walkAt.names = <<(<<"a">>), (<<"b">>)>>
  /\ walkAt.local = <<"/", "a", "/", "b">>
  /\ walkAt.remote = <<"/", "a", "/", "a", "/", "b">>

\* C20: whatever the prefix given, the calls of ensure nest no deeper than
\* the prefix has elements (one more for the root), and no call is made on
\* the argument of a call it is nested in: the recursion reaches "/" and
\* stops instead of going round on the same path.
C20_EnsureNestingBounded ==
  /\ Len(ensureStack) <= Len(SplitSlash(serverPrefixStr)) + 1
  /\ \A i, j \in DOMAIN ensureStack :
       i # j => ensureStack[i].arg # ensureStack[j].arg

====
